---- MODULE Spec2Model ----
(***************************************************************************)
(* A model of tfomics: the Altschul-Erickson dinucleotide shuffle          *)
(* (dinucleotide_shuffle.py) and the allelic effect-size statistics        *)
(* (statistics.py).                                                        *)
(*                                                                         *)
(* Strings are sequences of one-character strings.  The random source is   *)
(* a stream of words: randbelow(n) consumes one word w and returns w % n.  *)
(***************************************************************************)
EXTENDS Integers, Sequences, FiniteSets, TLC

\* ------------------------------------------------------------------ bounds
\* Longest input string given to dinucleotide_shuffle.
MaxLen == 4
\* Longest input string of the seeded, repeated runs.
DetLen == 5
\* Calls of dinucleotide_shuffle in each seeded run.
NumCalls == 2
\* Words of the random source that the seeded runs may consume.
MaxTape == 6
\* Most reads of one allele in one row of an allele-seq frame.
MaxReads == 2
\* Most rows (samples) of an allele-seq frame.
MaxSamples == 2
\* Largest magnitude of an argument of causal_effect.
MaxArg == 4
\* Most rows of df_BVs.
MaxBVs == 2
\* Most rows of df_GWAS.
MaxGWAS == 2
\* Most estimates pooled in one direct call of _pool_summary_statistics.
MaxPoints == 3
\* Longest list of p-values given to get_q_values.
MaxP == 3
\* The p-values of those lists are the multiples of 1 / PGrid.
PGrid == 4

\* ----------------------------------------------------------------- the run
\* "free": the calls are given a random source in any state; "record" and
\* "replay": the first and the second run of a caller that seeds two sources
\* alike (two processes, or one after the other).
VARIABLE mode

\* --------------------------------------------------------------- characters
Nucleotides == {"A", "C", "G", "T"}

\* The characters an input may hold: the nucleotides, a lower-case
\* nucleotide and a letter that is no nucleotide.
InputChars == Nucleotides \cup {"a", "X"}

\* str.upper on one character.
UpperChar(c) ==
    IF c = "a" THEN "A" ELSE c

\* Every character a case-normalised input may hold.
Chars == {UpperChar(c) : c \in InputChars}

\* Code point order of the upper-case characters, as sorted() compares them.
Ord(c) ==
    CASE c = "A" -> 65
      [] c = "C" -> 67
      [] c = "G" -> 71
      [] c = "T" -> 84
      [] c = "X" -> 88
      [] OTHER -> 0

SeqsUpTo(S, n) == UNION {[1..k -> S] : k \in 0..n}

Inputs == SeqsUpTo(InputChars, MaxLen)

\* section.upper()
Upper(s) == [i \in 1..Len(s) |-> UpperChar(s[i])]

\* set(section)
CharSet(s) == {s[i] : i \in 1..Len(s)}

\* --------------------------------------------------- get_nucleotide_list
RECURSIVE SortedList(_)
SortedList(S) ==
    IF S = {} THEN <<>>
    ELSE LET m == CHOOSE x \in S : \A y \in S : Ord(x) <= Ord(y)
         IN  <<m>> \o SortedList(S \ {m})

\* Mutant: the assertion never fires.
invalid_nucleotides_unchecked(section) == {}

\* nucleotide_set - {"A", "C", "G", "T"}
invalid_nucleotides(section) == CharSet(section) \ Nucleotides

\* Mutant: the list is left in the iteration order of the set, which the
\* second run's process hashes the other way round.
RECURSIVE Reversed(_)
Reversed(list) ==
    IF list = <<>> THEN <<>> ELSE Append(Reversed(Tail(list)), Head(list))

get_nucleotide_list_unsorted(section) ==
    IF mode = "replay" THEN Reversed(SortedList(CharSet(section)))
    ELSE SortedList(CharSet(section))

\* sorted(list(nucleotide_set)), once the assertion has passed
get_nucleotide_list(section) == SortedList(CharSet(section))

\* ------------------------------------------------ get_dinucleotide_sequence
\* dinucleotide_sequence[start]: the characters that follow start, in order
\* of occurrence.  A defaultdict: a key never appended to reads as [].
RECURSIVE Successors(_, _, _)
Successors(section, start, i) ==
    IF i >= Len(section) THEN <<>>
    ELSE (IF section[i] = start THEN <<section[i + 1]>> ELSE <<>>)
         \o Successors(section, start, i + 1)

get_dinucleotide_sequence(section) ==
    [start \in Chars |-> Successors(section, start, 1)]

\* ------------------------------------------------------- connected_to_last
\* One pass of "for (start, end) in edge_list" over the dictionary.
RECURSIVE PropagateOnce(_, _, _)
PropagateOnce(connected, edge_list, k) ==
    IF k > Len(edge_list) THEN connected
    ELSE LET start == edge_list[k][1]
             end   == edge_list[k][2]
         IN  PropagateOnce(IF connected[end]
                              THEN [connected EXCEPT ![start] = TRUE]
                              ELSE connected,
                           edge_list, k + 1)

RECURSIVE Propagate(_, _, _)
Propagate(connected, edge_list, rounds) ==
    IF rounds <= 0 THEN connected
    ELSE Propagate(PropagateOnce(connected, edge_list, 1), edge_list, rounds - 1)

\* Mutant: one round of back-propagation too few.
PropagationRounds_short(nucleotide_list) == Len(nucleotide_list) - 2

\* Mutant: a single round of back-propagation.
PropagationRounds_one(nucleotide_list) == 1

\* range(len(nucleotide_list) - 1)
PropagationRounds(nucleotide_list) == Len(nucleotide_list) - 1

\* Mutant: every edge list is accepted.
connected_to_last_always(edge_list, nucleotide_list, last_character) == TRUE

connected_to_last(edge_list, nucleotide_list, last_character) ==
    LET keys == CharSet(nucleotide_list) \cup {last_character}
        init == [n \in keys |-> n = last_character]
        fin  == Propagate(init, edge_list, PropagationRounds(nucleotide_list))
    IN  \A n \in keys : fin[n]

\* -------------------------------------------------------------- pick_edges
\* The nucleotides that draw an edge, in the order of the for loop.
PickStarts(nucleotide_list, last_character) ==
    SelectSeq(nucleotide_list, LAMBDA n : n # last_character)

\* rng.choice(seq): seq[randbelow(len(seq))]
Choice(list, word) == list[(word % Len(list)) + 1]

\* One pass of the for loop of pick_edges, with the words the source gives.
PickOnce(starts, dinucleotide_sequence, words) ==
    [k \in 1..Len(starts) |->
        <<starts[k], Choice(dinucleotide_sequence[starts[k]], words[k])>>]

\* ----------------------------------------------------------- rearrangement
\* list.remove(x): drops the first occurrence of x.
RECURSIVE Remove(_, _)
Remove(list, x) ==
    IF list = <<>> THEN <<>>
    ELSE IF Head(list) = x THEN Tail(list)
    ELSE <<Head(list)>> \o Remove(Tail(list), x)

\* Mutant: "x[i] = x[j]", the swap's other half lost.
Swap_overwrite(list, i, j) == [list EXCEPT ![i] = list[j]]

Swap(list, i, j) == [list EXCEPT ![i] = list[j], ![j] = list[i]]

\* rng.shuffle(x): for i in reversed(range(1, len(x))): j = randbelow(i + 1);
\* x[i], x[j] = x[j], x[i].  words[k] is the word of the k-th iteration.
RECURSIVE ShuffleFrom(_, _, _)
ShuffleFrom(list, words, k) ==
    LET i == Len(list) - k      \* 0-based index of this iteration
    IN  IF i < 1 THEN list
        ELSE ShuffleFrom(Swap(list, i + 1, (words[k] % (i + 1)) + 1), words, k + 1)

Shuffle(list, words) == ShuffleFrom(list, words, 1)

\* Words one shuffle of a list of this length consumes.
ShuffleDraws(len) == IF len > 1 THEN len - 1 ELSE 0

\* The moduli of the draws of one shuffle: len, len - 1, ..., 2.
ShuffleModuli(len) == [k \in 1..ShuffleDraws(len) |-> len - k + 1]

\* "for (start, end) in edge_list: dinucleotide_sequence[start].remove(end)"
RECURSIVE RemoveEdges(_, _, _)
RemoveEdges(ds, edge_list, k) ==
    IF k > Len(edge_list) THEN ds
    ELSE RemoveEdges([ds EXCEPT ![edge_list[k][1]] = Remove(@, edge_list[k][2])],
                     edge_list, k + 1)

\* "for nucleotide in nucleotide_list: rng.shuffle(dinucleotide_sequence[nucleotide])"
RECURSIVE ShuffleAll(_, _, _, _)
ShuffleAll(ds, nucleotide_list, words, k) ==
    IF k > Len(nucleotide_list) THEN ds
    ELSE LET n == nucleotide_list[k]
             d == ShuffleDraws(Len(ds[n]))
         IN  ShuffleAll([ds EXCEPT ![n] = Shuffle(@, SubSeq(words, 1, d))],
                        nucleotide_list,
                        SubSeq(words, d + 1, Len(words)), k + 1)

RECURSIVE AllModuli(_, _, _)
AllModuli(ds, nucleotide_list, k) ==
    IF k > Len(nucleotide_list) THEN <<>>
    ELSE ShuffleModuli(Len(ds[nucleotide_list[k]]))
         \o AllModuli(ds, nucleotide_list, k + 1)

\* Mutant: the chosen edges are put back at the front of their lists.
RECURSIVE AppendEdges_front(_, _, _)
AppendEdges_front(ds, edge_list, k) ==
    IF k > Len(edge_list) THEN ds
    ELSE AppendEdges_front([ds EXCEPT ![edge_list[k][1]] = <<edge_list[k][2]>> \o @],
                           edge_list, k + 1)

\* "for (start, end) in edge_list: dinucleotide_sequence[start].append(end)"
RECURSIVE AppendEdges(_, _, _)
AppendEdges(ds, edge_list, k) ==
    IF k > Len(edge_list) THEN ds
    ELSE AppendEdges([ds EXCEPT ![edge_list[k][1]] = Append(@, edge_list[k][2])],
                     edge_list, k + 1)


\* ------------------------------------------------------------ path walking
\* "current_character = dinucleotide_sequence[previous_character][0]"
NextCharacter(ds, previous) == Head(ds[previous])

\* "del dinucleotide_sequence[previous_character][0]"
DeleteFirst(ds, previous) == [ds EXCEPT ![previous] = Tail(@)]

\* Mutant: the path starts empty.
InitialPath_empty(section) == <<>>

\* "path = section[0]"
InitialPath(section) == <<section[1]>>

\* range(len(section) - 1)
WalkLength(section) == Len(section) - 1

\* ------------------------------------------------------ exact arithmetic
\* The statistics compute in floating point; the model computes the same
\* expressions exactly.  A number is a fraction <<n, d>> in lowest terms with
\* d > 0; a standard error, the square root of a fraction, is kept as the
\* fraction under the root.
RECURSIVE GCD(_, _)
GCD(a, b) == IF b = 0 THEN a ELSE GCD(b, a % b)

Abs(n) == IF n < 0 THEN 0 - n ELSE n

Max(a, b) == IF a >= b THEN a ELSE b

Rat(n, d) ==
    LET g == GCD(Abs(n), Abs(d))
        sgn == IF d < 0 THEN 0 - 1 ELSE 1
    IN  <<(sgn * n) \div g, (sgn * d) \div g>>

RatInt(n) == <<n, 1>>
RatAdd(x, y) == Rat(x[1] * y[2] + y[1] * x[2], x[2] * y[2])
RatSub(x, y) == Rat(x[1] * y[2] - y[1] * x[2], x[2] * y[2])
RatMul(x, y) == Rat(x[1] * y[1], x[2] * y[2])
RatDiv(x, y) == Rat(x[1] * y[2], x[2] * y[1])
RatSquare(x) == RatMul(x, x)

\* x ** 0.5
Root(x) == [sq |-> x]
\* k * e for a standard error e and an integer k >= 0
Scaled(k, e) == [sq |-> RatMul(RatInt(k * k), e.sq)]

\* ----------------------------------------- _binomial_probability_and_variance
\* Mutant: a read is added to every count, not only where there is none.
FlooredCount_plus(count) == count + 1

\* max(count, 1)
FlooredCount(count) == Max(count, 1)

\* Mutant: the factor 1 - p is missing under the root.
_binomial_without_complement(positives, negatives) ==
    LET floored_pos == FlooredCount(positives)
        floored_neg == FlooredCount(negatives)
        total == floored_pos + floored_neg
        p_estimate == Rat(floored_pos, total)
    IN  <<p_estimate, Root(RatDiv(p_estimate, RatInt(total)))>>

_binomial_probability_and_variance(positives, negatives) ==
    LET floored_pos == FlooredCount(positives)
        floored_neg == FlooredCount(negatives)
        total == floored_pos + floored_neg
        p_estimate == Rat(floored_pos, total)
        var_estimate ==
            Root(RatDiv(RatMul(p_estimate, RatSub(RatInt(1), p_estimate)),
                        RatInt(total)))
    IN  <<p_estimate, var_estimate>>

\* data_frame.apply(lambda row: ..., axis=1): a frame is the sequence of its
\* rows, a row a record of its columns.
estimate_binomial_probability(frame, positives_column, negatives_column) ==
    [i \in 1..Len(frame) |->
        LET est == _binomial_probability_and_variance(
                       frame[i][positives_column], frame[i][negatives_column])
        IN  [ar |-> est[1], ar_sterr |-> est[2]]]

\* ------------------------------------------------------ calculate_effect_size
\* Mutant: 2.0 * row[param_column] - 1, the other orientation.
EffectOf_flipped(p) == RatSub(RatMul(RatInt(2), p), RatInt(1))

\* 1 - 2.0 * row[param_column]
EffectOf(p) == RatSub(RatInt(1), RatMul(RatInt(2), p))

\* Mutant: the standard error is not rescaled.
EffectErrorOf_unscaled(e) == e

\* 2 * row[sterr_column]
EffectErrorOf(e) == Scaled(2, e)

calculate_effect_size(frame, param_column, sterr_column) ==
    [i \in 1..Len(frame) |->
        [es |-> EffectOf(frame[i][param_column]),
         es_sterr |-> EffectErrorOf(frame[i][sterr_column])]]

\* -------------------------------------------------- _pool_summary_statistics
RECURSIVE RatSum(_)
RatSum(xs) == IF xs = <<>> THEN RatInt(0) ELSE RatAdd(Head(xs), RatSum(Tail(xs)))

\* curve_fit of the constant model a with sigma=sterr, absolute_sigma=True:
\* the least-squares a is the mean of the points weighted by 1/sigma^2, and
\* its covariance is 1/sum(1/sigma^2).
\* Mutant: "absolute_sigma=False", the covariance scaled by the residuals.
absolute_sigma_false == FALSE

\* "absolute_sigma=True"
absolute_sigma == TRUE

CurveFitConstant(points, sterr) ==
    LET weights == [i \in 1..Len(points) |-> RatDiv(RatInt(1), sterr[i].sq)]
        weighted == [i \in 1..Len(points) |-> RatMul(weights[i], points[i])]
        total == RatSum(weights)
        popt == RatDiv(RatSum(weighted), total)
        pcov == RatDiv(RatInt(1), total)
        residuals == [i \in 1..Len(points) |->
                         RatMul(weights[i], RatSquare(RatSub(points[i], popt)))]
        s_sq == RatDiv(RatSum(residuals), RatInt(Len(points) - 1))
    IN  [params |-> popt,
         cov |-> IF absolute_sigma THEN pcov ELSE RatMul(pcov, s_sq)]

\* Mutant: the one-estimate case is never taken and every group is fitted.
SingleEstimate_never(points) == FALSE

\* "if len(points) == 1"
SingleEstimate(points) == Len(points) = 1

_pool_summary_statistics(points, sterr) ==
    IF SingleEstimate(points) THEN <<points[1], sterr[1]>>
    ELSE LET fit == CurveFitConstant(points, sterr)
         IN  <<fit.params, Root(fit.cov)>>

\* ------------------------------------------------------------ group_statistics
\* The order groupby sorts the values of a key column in: numbers by value,
\* strings by code point.
ColumnOrd(column, value) ==
    IF column = "snppos" THEN value
    ELSE CASE value = "chr1" -> 1
           [] value = "chr2" -> 2
           [] OTHER -> 0

\* The key of a row: its values in the group columns.
KeyOf(row, group_columns) ==
    [k \in 1..Len(group_columns) |-> row[group_columns[k]]]

\* Tuples compare column by column.
RECURSIVE KeyBefore(_, _, _, _)
KeyBefore(key, other, group_columns, k) ==
    IF k > Len(group_columns) THEN TRUE
    ELSE LET a == ColumnOrd(group_columns[k], key[k])
             b == ColumnOrd(group_columns[k], other[k])
         IN  a < b \/ (a = b /\ KeyBefore(key, other, group_columns, k + 1))

RECURSIVE SortedKeys(_, _)
SortedKeys(K, group_columns) ==
    IF K = {} THEN <<>>
    ELSE LET m == CHOOSE k \in K : \A l \in K : KeyBefore(k, l, group_columns, 1)
         IN  <<m>> \o SortedKeys(K \ {m}, group_columns)

\* Mutant: a group is its first row only.
GroupRows_first(frame, group_columns, key) ==
    SubSeq(SelectSeq(frame, LAMBDA row : KeyOf(row, group_columns) = key), 1, 1)

\* The rows of one group, in frame order.
GroupRows(frame, group_columns, key) ==
    SelectSeq(frame, LAMBDA row : KeyOf(row, group_columns) = key)

\* data_frame.groupby(list(group_columns)).apply(...): one row per key, in
\* the order of the sorted keys, indexed by the key.
group_statistics(frame, param_column, sterr_column, group_columns) ==
    LET keys == SortedKeys({KeyOf(frame[i], group_columns) : i \in 1..Len(frame)},
                           group_columns)
    IN  [g \in 1..Len(keys) |->
            LET group == GroupRows(frame, group_columns, keys[g])
                pooled == _pool_summary_statistics(
                              [i \in 1..Len(group) |-> group[i][param_column]],
                              [i \in 1..Len(group) |-> group[i][sterr_column]])
            IN  ("index" :> keys[g]) @@ (param_column :> pooled[1])
                @@ (sterr_column :> pooled[2])]

\* The keys of the groups that _pool_summary_statistics hands to curve_fit.
CurveFitKeys(frame, param_column, group_columns) ==
    {key \in {KeyOf(frame[i], group_columns) : i \in 1..Len(frame)} :
        LET group == GroupRows(frame, group_columns, key)
        IN  ~SingleEstimate([i \in 1..Len(group) |-> group[i][param_column]])}

\* ------------------------------------------------------ get_ref_and_alt_counts
\* row[f"c{allele}"]
CountOf(row, allele) ==
    CASE allele = "A" -> row.cA
      [] allele = "C" -> row.cC
      [] allele = "G" -> row.cG
      [] allele = "T" -> row.cT

get_ref_and_alt_counts(row) ==
    LET ref == row.ref
        alt == IF row.mat_all = row.ref THEN row.pat_all ELSE row.mat_all
    IN  [ref_count |-> CountOf(row, ref), alt_count |-> CountOf(row, alt)]

\* ------------------------------------------------------ allele_seq_effect_size
\* Mutant: the ref column is not required.
required_cols_without_ref ==
    {"chrm", "snppos", "mat_all", "pat_all", "cA", "cC", "cG", "cT"}

required_cols ==
    {"chrm", "snppos", "mat_all", "pat_all", "cA", "cC", "cG", "cT", "ref"}

\* data_frame.join(probabilities): the rows side by side.
Joined(frame, probs) ==
    [i \in 1..Len(frame) |->
        [chrm |-> frame[i].chrm, snppos |-> frame[i].snppos,
         ar |-> probs[i].ar, ar_sterr |-> probs[i].ar_sterr]]

\* ------------------------------------------------------------ causal_effect
\* Numbers are exact fractions; "** 0.5" keeps the fraction under the root.
\* The floats that are no numbers are the fractions without denominator.
NaN == <<0, 0>>
Inf == <<1, 0>>


\* Python's float division raises ZeroDivisionError on a zero divisor.
DivisionRaises(divisor) == divisor[1] = 0

\* Mutant: the second term is divided by exposure_effect ** 2.
causal_effect_squared(exposure_effect, exposure_error, gwas_effect, gwas_error) ==
    IF DivisionRaises(exposure_effect)
    THEN [raised |-> "ZeroDivisionError"]
    ELSE LET first == RatDiv(RatSquare(gwas_error), RatSquare(exposure_effect))
             second == RatDiv(RatMul(RatSquare(gwas_effect),
                                     RatSquare(exposure_error)),
                              RatSquare(exposure_effect))
         IN  [raised |-> "none",
              causal_effect |-> RatDiv(gwas_effect, exposure_effect),
              standard_error |-> Root(RatAdd(first, second))]

\* Mutant: the division is numpy's, which gives inf instead of raising.
causal_effect_inf(exposure_effect, exposure_error, gwas_effect, gwas_error) ==
    IF DivisionRaises(exposure_effect)
    THEN [raised |-> "none", causal_effect |-> Inf, standard_error |-> Root(Inf)]
    ELSE LET first == RatDiv(RatSquare(gwas_error), RatSquare(exposure_effect))
             second == RatDiv(RatMul(RatSquare(gwas_effect),
                                     RatSquare(exposure_error)),
                              RatSquare(RatSquare(exposure_effect)))
         IN  [raised |-> "none",
              causal_effect |-> RatDiv(gwas_effect, exposure_effect),
              standard_error |-> Root(RatAdd(first, second))]

\* causal_effect: the first division raises when exposure_effect is zero.
causal_effect(exposure_effect, exposure_error, gwas_effect, gwas_error) ==
    IF DivisionRaises(exposure_effect)
    THEN [raised |-> "ZeroDivisionError"]
    ELSE LET first == RatDiv(RatSquare(gwas_error), RatSquare(exposure_effect))
             second == RatDiv(RatMul(RatSquare(gwas_effect),
                                     RatSquare(exposure_error)),
                              RatSquare(RatSquare(exposure_effect)))
         IN  [raised |-> "none",
              causal_effect |-> RatDiv(gwas_effect, exposure_effect),
              standard_error |-> Root(RatAdd(first, second))]

\* -------------------------------------------------------- naive_mr_analysis
\* A frame is the sequence of its rows.  The rows of df_BVs have the columns
\* columns_bvs names (rsid, ref, alt, es, es_sterr), the rows of df_GWAS the
\* columns columns_gwas names and, in na, the columns whose value is missing.
\* MAF, HWE and iscore are in hundredths.
GWASColumns == {"rsid", "allele", "iscore", "beta", "NSE", "trait", "MAF", "HWE"}

\* df_GWAS.loc[df_GWAS[rsid] == BV[rsid]]
MatchingRows(frame, rsid) == SelectSeq(frame, LAMBDA row : row.rsid = rsid)

\* dropna(axis=0, how="any") drops a row with a missing value in any column.
HasMissing(row) == row.na # {}

\* Mutant: "value > minimum", the threshold itself excluded.
MeetsThreshold_strict(value, minimum) == value > minimum

\* "rsid_GWAS[column] >= minimum"
MeetsThreshold(value, minimum) == value >= minimum

\* The filtering of the rows matching one BV.
FilteredRows(frame, minimum_MAF, minimum_HWE, minimum_iscore) ==
    LET dropped == SelectSeq(frame, LAMBDA row : ~HasMissing(row))
    IN  SelectSeq(dropped, LAMBDA row :
            /\ MeetsThreshold(row.MAF, minimum_MAF)
            /\ MeetsThreshold(row.HWE, minimum_HWE)
            /\ MeetsThreshold(row.iscore, minimum_iscore))

\* "trait_GWAS[trait] in GWAScodeslist"
InCodesList(trait, codes) == \E k \in 1..Len(codes) : codes[k] = trait

\* "determine effect allele"
allele_swap_sign(trait_GWAS, BV) ==
    IF trait_GWAS.allele = BV.alt THEN 1
    ELSE IF trait_GWAS.allele = BV.ref THEN 0 - 1
    ELSE 0

\* "z = causal_es / causal_se": the sign of z and its square.
ZScore(causal_es, causal_se) ==
    [sign |-> IF causal_es[1] > 0 THEN 1 ELSE IF causal_es[1] < 0 THEN 0 - 1 ELSE 0,
     sq |-> RatDiv(RatSquare(causal_es), causal_se.sq)]

\* x < y for fractions
RatLess(x, y) == x[1] * y[2] < y[1] * x[2]

\* "norm.sf(abs(z)) * 2.0", rounded up to the next of 1/1000, 1/100, 1/20,
\* 1/10, 1/2 and 1: the two-sided tail is below p from |z|^2 = 10.828, 6.635,
\* 3.841, 2.706 and 0.455 on.
TwoSidedP(z) ==
    CASE ~RatLess(z.sq, Rat(10828, 1000)) -> Rat(1, 1000)
      [] ~RatLess(z.sq, Rat(6635, 1000)) -> Rat(1, 100)
      [] ~RatLess(z.sq, Rat(3841, 1000)) -> Rat(1, 20)
      [] ~RatLess(z.sq, Rat(2706, 1000)) -> Rat(1, 10)
      [] ~RatLess(z.sq, Rat(455, 1000)) -> Rat(1, 2)
      [] OTHER -> RatInt(1)

\* "list(BV) + list(trait_GWAS) + [causal_es, causal_se, z, p]"
ScoredRow(BV, trait_GWAS, scored) ==
    LET z == ZScore(scored.causal_effect, scored.standard_error)
    IN  [bv |-> BV, gwas |-> trait_GWAS,
         causal_es |-> scored.causal_effect, causal_se |-> scored.standard_error,
         z |-> z, p |-> TwoSidedP(z)]

\* "list(BV) + list(trait_GWAS) + list(np.full(4, np.nan))"
MissingRow(BV, trait_GWAS) ==
    [bv |-> BV, gwas |-> trait_GWAS,
     causal_es |-> NaN, causal_se |-> Root(NaN),
     z |-> [sign |-> 0, sq |-> NaN], p |-> NaN]

\* "[np.nan for i in range(len(list(df_GWAS.columns)))]"
AllMissing == [na |-> GWASColumns]

\* ------------------------------------------------------------- get_q_values
\* A p-value is a fraction; None and NaN are NaN.
\* "(type(p) == float or isinstance(p, np.float64)) and not np.isnan(p)"
IsFloat(p) == p # NaN

\* pos_p_values, as positions from 1
FinitePositions(list_of_p) ==
    SelectSeq([i \in 1..Len(list_of_p) |-> i], LAMBDA i : IsFloat(list_of_p[i]))

\* np.argsort(pvals): the positions in ascending order of their values.
RECURSIVE ArgSortOf(_, _)
ArgSortOf(pvals, left) ==
    IF left = {} THEN <<>>
    ELSE LET m == CHOOSE i \in left :
                    \A j \in left : \/ RatLess(pvals[i], pvals[j])
                                    \/ (pvals[i] = pvals[j] /\ i <= j)
         IN  <<m>> \o ArgSortOf(pvals, left \ {m})

ArgSort(pvals) == ArgSortOf(pvals, 1..Len(pvals))

\* fdrcorrection: "pvals_corrected_raw = pvals_sorted / ecdffactor" with
\* ecdffactor = i / n at rank i.
CorrectedRaw(sorted) ==
    [i \in 1..Len(sorted) |->
        RatDiv(RatMul(sorted[i], RatInt(Len(sorted))), RatInt(i))]

RatMin(x, y) == IF RatLess(y, x) THEN y ELSE x

\* Mutant: the running minimum is left out.
CumulativeMin_none(raw) == raw

\* "np.minimum.accumulate(pvals_corrected_raw[::-1])[::-1]"
RECURSIVE CumulativeMin(_)
CumulativeMin(raw) ==
    IF Len(raw) <= 1 THEN raw
    ELSE LET rest == CumulativeMin(Tail(raw))
         IN  <<RatMin(Head(raw), Head(rest))>> \o rest

\* "pvals_corrected[pvals_corrected > 1] = 1"
Clipped(corrected) ==
    [i \in 1..Len(corrected) |-> RatMin(corrected[i], RatInt(1))]

\* multipletests(pvals, method="fdr_bh")[1]: it sorts, corrects and puts the
\* corrected values back at the positions of their p-values; on no p-values
\* its "1./ntests" raises ZeroDivisionError.
multipletests(pvals) ==
    IF pvals = <<>> THEN [raised |-> "ZeroDivisionError"]
    ELSE LET sortind == ArgSort(pvals)
             sorted == [k \in 1..Len(pvals) |-> pvals[sortind[k]]]
             corrected == Clipped(CumulativeMin(CorrectedRaw(sorted)))
         IN  [raised |-> "none",
              pvals_corrected |->
                  [i \in 1..Len(pvals) |->
                      corrected[CHOOSE k \in 1..Len(pvals) : sortind[k] = i]]]

\* "out = [nan ...]; for pos, q in zip(pos_p_values, q_values): out[pos] = q"
Recovered(length, positions, values) ==
    [i \in 1..length |->
        IF \E k \in 1..Len(positions) : k <= Len(values) /\ positions[k] = i
        THEN values[CHOOSE k \in 1..Len(positions) : positions[k] = i]
        ELSE NaN]

\* ------------------------------------------------------------------- state
VARIABLES
    pc,                     \* where the current call of dinucleotide_shuffle is
    input,                  \* the section argument as passed
    section,                \* section after .upper()
    nucleotide_list,
    dinucleotide_sequence,
    last_character,
    edge_list,
    path,
    previous_character,
    walked,                 \* iterations of the path loop done
    error,                  \* the exception raised, "none" while there is none
    invalid,                \* the symbols the AssertionError lists
    rng_used,               \* the call has drawn from the random source
    tape,                   \* the words of the seeded source, as far as known
    pos,                    \* words the seeded source has given in this run
    script,                 \* the inputs of the calls of a seeded run
    first_set,              \* results of the first seeded run
    second_set              \* results of the second seeded run

VARIABLES
    stat_pc,                \* where the call of allele_seq_effect_size is
    data_frame,             \* the allele-seq frame: its rows
    columns,                \* the columns data_frame has
    missing_cols,           \* the columns the KeyError names
    counts,                 \* data_frame.apply(get_ref_and_alt_counts, axis=1)
    probabilities,          \* counts.pipe(estimate_binomial_probability)
    swapped,                \* the estimate with the count columns swapped
    grouped,                \* group_statistics(data_frame.join(probabilities))
    effect_sizes,           \* grouped.pipe(calculate_effect_size)
    fitted,                 \* the group keys curve_fit has been called for
    regrouped               \* group_statistics of the same rows in another order

VARIABLES
    conn_pc,                \* where the direct call of connected_to_last is
    conn_call,              \* its arguments
    conn_result,            \* what it returned
    pool_pc,                \* where the direct call of _pool_summary_statistics is
    pool_call,              \* its arguments
    pool_result             \* what it returned

VARIABLES
    ce_pc,                  \* where the call of causal_effect is
    arguments,              \* its four arguments
    ce_result               \* what it returned

VARIABLES
    mr_pc,                  \* where the call of naive_mr_analysis is
    df_BVs,
    df_GWAS,
    GWAScodeslist,
    min_MAF,
    min_HWE,
    min_iscore,
    bv_index,               \* rows of df_BVs the outer loop has finished
    rsid_GWAS,              \* the filtered GWAS rows of the current BV
    trait_index,            \* rows of rsid_GWAS the inner loop has finished
    out,
    mr_frame                \* the frame returned, with its "q values" column

VARIABLES
    q_pc,                   \* where the call of get_q_values is
    list_of_p,
    pos_p_values,
    p_values_no_none,
    q_values,
    q_out                   \* the list get_q_values returns

shuffle_locals ==
    <<section, nucleotide_list, dinucleotide_sequence, last_character,
      edge_list, path, previous_character, walked>>
rng_vars == <<tape, pos>>
run_vars == <<mode, script>>
sets == <<first_set, second_set>>
shuffle_vars == <<pc, input, shuffle_locals, error, invalid, rng_used,
                  rng_vars, run_vars, sets>>
stat_vars == <<stat_pc, data_frame, columns, missing_cols, counts,
               probabilities, swapped, grouped, effect_sizes, fitted, regrouped>>
causal_vars == <<ce_pc, arguments, ce_result>>
mr_vars == <<mr_pc, df_BVs, df_GWAS, GWAScodeslist, min_MAF, min_HWE, min_iscore,
             bv_index, rsid_GWAS, trait_index, out, mr_frame>>
q_vars == <<q_pc, list_of_p, pos_p_values, p_values_no_none, q_values, q_out>>
direct_vars == <<conn_pc, conn_call, conn_result, pool_pc, pool_call, pool_result>>
beside_direct == <<shuffle_vars, stat_vars, causal_vars, mr_vars, q_vars>>
mr_side == <<causal_vars, mr_vars, q_vars>>
beside_shuffle == <<stat_vars, mr_side, direct_vars>>
beside_stat == <<shuffle_vars, mr_side, direct_vars>>
beside_mr == <<shuffle_vars, stat_vars, direct_vars>>
vars == <<shuffle_vars, stat_vars, mr_side, direct_vars>>

EmptyGraph == [c \in Chars |-> <<>>]

\* The result a finished call hands to its caller.
Result == [error |-> error, invalid |-> invalid,
           path |-> IF error = "none" THEN path ELSE <<>>]

\* ------------------------------------------------------ the random source
\* The words a request of Len(moduli) draws may get.  A seeded source gives
\* the words of its tape from pos on; past the known tape, and from a source
\* in any state, the k-th word is any word (kept below its modulus).
RECURSIVE WordsFrom(_, _)
WordsFrom(moduli, k) ==
    IF k > Len(moduli) THEN {<<>>}
    ELSE LET first == IF mode # "free" /\ pos + k <= Len(tape)
                         THEN {tape[pos + k]}
                         ELSE 0..(moduli[k] - 1)
         IN  {<<w>> \o rest : w \in first, rest \in WordsFrom(moduli, k + 1)}

Draws(moduli) == WordsFrom(moduli, 1)

\* The source after giving words: a seeded source has moved on.
Drawn(words) ==
    IF mode = "free" THEN UNCHANGED rng_vars
    ELSE /\ pos' = pos + Len(words)
         /\ tape' = IF pos + Len(words) <= Len(tape) THEN tape
                    ELSE SubSeq(tape, 1, pos) \o words

CanDraw(n) == mode = "free" \/ pos + n <= MaxTape

\* ----------------------------------------------------------------- actions
\* The current list of results, and whether the run may make another call.
CurrentSet == IF mode = "replay" THEN second_set ELSE first_set

Finish(result) ==
    CASE mode = "record" -> /\ first_set' = Append(first_set, result)
                            /\ UNCHANGED second_set
      [] mode = "replay" -> /\ second_set' = Append(second_set, result)
                            /\ UNCHANGED first_set
      [] OTHER -> UNCHANGED sets

\* dinucleotide_shuffle(section, rng) on input s, up to the call of
\* pick_edges: "section = section.upper()", get_nucleotide_list and its
\* assertion, get_dinucleotide_sequence.
Begin(s) ==
    /\ input' = s
    /\ section' = Upper(s)
    /\ rng_used' = FALSE
    /\ edge_list' = <<>>
    /\ path' = <<>>
    /\ previous_character' = ""
    /\ last_character' = ""
    /\ walked' = 0
    /\ IF invalid_nucleotides(Upper(s)) # {}
       THEN /\ pc' = "error"
            /\ error' = "AssertionError"
            /\ invalid' = invalid_nucleotides(Upper(s))
            /\ nucleotide_list' = <<>>
            /\ dinucleotide_sequence' = EmptyGraph
            /\ Finish([error |-> "AssertionError",
                       invalid |-> invalid_nucleotides(Upper(s)),
                       path |-> <<>>])
       ELSE /\ pc' = "pick_edges"
            /\ error' = "none"
            /\ invalid' = {}
            /\ nucleotide_list' = get_nucleotide_list(Upper(s))
            /\ dinucleotide_sequence' = get_dinucleotide_sequence(Upper(s))
            /\ UNCHANGED sets
    /\ UNCHANGED <<rng_vars, run_vars>>
    /\ UNCHANGED beside_shuffle

\* A call of dinucleotide_shuffle: on any input when the source is in any
\* state; a seeded run makes the calls of its script one after the other.
Call ==
    IF mode = "free"
    THEN /\ pc = "idle"
         /\ \E s \in Inputs : Begin(s)
    ELSE /\ pc \in {"idle", "done"}
         /\ Len(CurrentSet) < Len(script)
         /\ Begin(script[Len(CurrentSet) + 1])

\* Raise(e): the call ends with exception e.
Raise(e) ==
    /\ pc' = "error"
    /\ error' = e
    /\ Finish([error |-> e, invalid |-> {}, path |-> <<>>])

\* pick_edges: "last_character = section[-1]"
PickEnter ==
    /\ pc = "pick_edges"
    /\ IF section = <<>>
       THEN /\ Raise("IndexError")
            /\ UNCHANGED last_character
       ELSE /\ pc' = "pick_loop"
            /\ last_character' = section[Len(section)]
            /\ UNCHANGED <<error, sets>>
    /\ UNCHANGED <<input, section, nucleotide_list, dinucleotide_sequence,
                   edge_list, path, previous_character, walked, invalid,
                   rng_used, rng_vars, run_vars>>
    /\ UNCHANGED beside_shuffle

\* pick_edges: one iteration of "while True".
PickRound ==
    /\ pc = "pick_loop"
    /\ LET starts == PickStarts(nucleotide_list, last_character)
           moduli == [k \in 1..Len(starts) |->
                         Len(dinucleotide_sequence[starts[k]])]
       IN  IF \E k \in 1..Len(starts) : moduli[k] = 0
           THEN \* rng.choice of an empty list
                /\ Raise("IndexError")
                /\ UNCHANGED <<edge_list, rng_used, rng_vars>>
           ELSE /\ CanDraw(Len(starts))
                /\ \E words \in Draws(moduli) :
                    LET edges == PickOnce(starts, dinucleotide_sequence, words)
                    IN  /\ edge_list' = edges
                        /\ Drawn(words)
                        /\ pc' = IF connected_to_last(edges, nucleotide_list,
                                                      last_character)
                                 THEN "rearrange" ELSE "pick_loop"
                /\ rng_used' = (rng_used \/ Len(starts) > 0)
                /\ UNCHANGED <<error, sets>>
    /\ UNCHANGED <<input, section, nucleotide_list, dinucleotide_sequence,
                   last_character, path, previous_character, walked, invalid,
                   run_vars>>
    /\ UNCHANGED beside_shuffle

\* dinucleotide_shuffle: move the edges of edge_list to the end of their
\* lists and shuffle all other edges.
Rearrange ==
    /\ pc = "rearrange"
    /\ LET removed == RemoveEdges(dinucleotide_sequence, edge_list, 1)
           moduli  == AllModuli(removed, nucleotide_list, 1)
       IN  /\ CanDraw(Len(moduli))
           /\ \E words \in Draws(moduli) :
                /\ dinucleotide_sequence' =
                      AppendEdges(ShuffleAll(removed, nucleotide_list, words, 1),
                                  edge_list, 1)
                /\ Drawn(words)
    /\ rng_used' = TRUE
    /\ pc' = "walk"
    /\ path' = InitialPath(section)
    /\ previous_character' = section[1]
    /\ walked' = 0
    /\ UNCHANGED <<input, section, nucleotide_list, last_character, edge_list,
                   error, invalid, run_vars, sets>>
    /\ UNCHANGED beside_shuffle

\* dinucleotide_shuffle: one iteration of the path loop.
WalkStep ==
    /\ pc = "walk"
    /\ walked < WalkLength(section)
    /\ IF dinucleotide_sequence[previous_character] = <<>>
       THEN /\ Raise("IndexError")
            /\ UNCHANGED <<dinucleotide_sequence, path, previous_character, walked>>
       ELSE LET current_character ==
                    NextCharacter(dinucleotide_sequence, previous_character)
            IN  /\ path' = Append(path, current_character)
                /\ dinucleotide_sequence' =
                      DeleteFirst(dinucleotide_sequence, previous_character)
                /\ previous_character' = current_character
                /\ walked' = walked + 1
                /\ UNCHANGED <<pc, error, sets>>
    /\ UNCHANGED <<input, section, nucleotide_list, last_character, edge_list,
                   invalid, rng_used, rng_vars, run_vars>>
    /\ UNCHANGED beside_shuffle

\* dinucleotide_shuffle: "return path"
Return ==
    /\ pc = "walk"
    /\ walked >= WalkLength(section)
    /\ pc' = "done"
    /\ Finish([error |-> "none", invalid |-> {}, path |-> path])
    /\ UNCHANGED <<input, shuffle_locals, error, invalid, rng_used, rng_vars,
                   run_vars>>
    /\ UNCHANGED beside_shuffle

\* The caller builds a new random source from the same seed and starts the
\* second run of the same calls.
Reseed ==
    /\ mode = "record"
    /\ pc \in {"done", "error"}
    /\ pc = "done" => Len(first_set) = Len(script)
    /\ mode' = "replay"
    /\ pos' = 0
    /\ pc' = "idle"
    /\ UNCHANGED <<input, shuffle_locals, error, invalid, rng_used, tape,
                   script, sets>>
    /\ UNCHANGED beside_shuffle

\* No call of dinucleotide_shuffle has been made.
InitCall ==
    /\ pc = "idle"
    /\ input = <<>>
    /\ section = <<>>
    /\ nucleotide_list = <<>>
    /\ dinucleotide_sequence = EmptyGraph
    /\ last_character = ""
    /\ edge_list = <<>>
    /\ path = <<>>
    /\ previous_character = ""
    /\ walked = 0
    /\ error = "none"
    /\ invalid = {}
    /\ rng_used = FALSE
    /\ tape = <<>>
    /\ pos = 0
    /\ first_set = <<>>
    /\ second_set = <<>>

\* No frame has been given to the statistics.
InitNoFrame ==
    /\ stat_pc = "idle"
    /\ data_frame = <<>>
    /\ columns = {}
    /\ missing_cols = {}
    /\ counts = <<>>
    /\ probabilities = <<>>
    /\ swapped = <<>>
    /\ grouped = <<>>
    /\ effect_sizes = <<>>
    /\ fitted = {}
    /\ regrouped = <<>>

\* No call of causal_effect, naive_mr_analysis or get_q_values has been made.
InitNoConn ==
    /\ conn_pc = "idle"
    /\ conn_call = <<>>
    /\ conn_result = FALSE

InitNoPool ==
    /\ pool_pc = "idle"
    /\ pool_call = <<>>
    /\ pool_result = <<>>

InitNoCausal ==
    /\ ce_pc = "idle"
    /\ arguments = <<>>
    /\ ce_result = <<>>

InitNoQ ==
    /\ q_pc = "idle"
    /\ list_of_p = <<>>
    /\ pos_p_values = <<>>
    /\ p_values_no_none = <<>>
    /\ q_values = <<>>
    /\ q_out = <<>>

InitNoMR ==
    /\ mr_pc = "idle"
    /\ df_BVs = <<>>
    /\ df_GWAS = <<>>
    /\ GWAScodeslist = <<>>
    /\ min_MAF = 0
    /\ min_HWE = 0
    /\ min_iscore = 0
    /\ bv_index = 0
    /\ rsid_GWAS = <<>>
    /\ trait_index = 0
    /\ out = <<>>
    /\ mr_frame = <<>>

InitNoMRSide ==
    /\ InitNoCausal
    /\ InitNoMR
    /\ InitNoQ

\* Calls of dinucleotide_shuffle, each with a random source in any state.
Init ==
    /\ InitCall
    /\ InitNoConn
    /\ InitNoPool
    /\ mode = "free"
    /\ script = <<>>
    /\ InitNoFrame
    /\ InitNoMRSide

Shuffle_Next ==
    \/ Call
    \/ PickEnter
    \/ PickRound
    \/ Rearrange
    \/ WalkStep
    \/ Return

Next == Shuffle_Next

Spec == Init /\ [][Next]_vars

\* Two runs of the same calls from random sources seeded alike.
DetChars == {"A", "C", "G"}
DetInputs == SeqsUpTo(DetChars, DetLen)

InitDet ==
    /\ InitCall
    /\ InitNoConn
    /\ InitNoPool
    /\ mode = "record"
    /\ script \in {[k \in 1..NumCalls |-> s] : s \in DetInputs}
    /\ InitNoFrame
    /\ InitNoMRSide

NextDet == Shuffle_Next \/ Reseed

SpecDet == InitDet /\ [][NextDet]_vars

\* Fair random choices.  Every round of pick_edges draws each candidate edge
\* list with a probability above zero, whatever the rounds before it drew:
\* a round that can pass the connectivity test eventually does.
PickPasses == PickRound /\ pc' = "rearrange"

FairChoice == WF_vars(PickPasses)

\* A call of dinucleotide_shuffle on an upper-case string of nucleotides.
ValidInputs == SeqsUpTo(Nucleotides, MaxLen)

CallValid ==
    /\ mode = "free"
    /\ pc = "idle"
    /\ \E s \in ValidInputs : Begin(s)

\* The calls on valid input as far as the return of pick_edges, with fair
\* choices.
NextPick ==
    \/ CallValid
    \/ PickEnter
    \/ PickRound

SpecFair == Init /\ [][NextPick]_vars /\ FairChoice

\* -------------------------------------------------- allele_seq_effect_size
\* The rows an allele-seq frame may hold: a heterozygous site read with
\* either parent carrying the reference allele, and a site where neither
\* does; reads of A and of C.
Sites == {[chrm |-> "chr1", snppos |-> 42], [chrm |-> "chr2", snppos |-> 55]}

Genotypes(site) ==
    IF site.chrm = "chr1"
    THEN {[mat_all |-> "C", pat_all |-> "A", ref |-> "C"],
          [mat_all |-> "A", pat_all |-> "C", ref |-> "C"]}
    ELSE {[mat_all |-> "A", pat_all |-> "A", ref |-> "C"]}

AlleleRows ==
    {[chrm |-> site.chrm, snppos |-> site.snppos,
      mat_all |-> g.mat_all, pat_all |-> g.pat_all, ref |-> g.ref,
      cA |-> a, cC |-> c, cG |-> 0, cT |-> 0] :
        site \in Sites, g \in UNION {Genotypes(x) : x \in Sites},
        a \in 0..MaxReads, c \in 0..MaxReads}

AlleleFrames ==
    {f \in UNION {[1..n -> AlleleRows] : n \in 1..MaxSamples} :
        \A i \in 1..Len(f) :
            [mat_all |-> f[i].mat_all, pat_all |-> f[i].pat_all, ref |-> f[i].ref]
                \in Genotypes([chrm |-> f[i].chrm, snppos |-> f[i].snppos])}

\* Column sets of a frame that is no allele-seq frame.
OtherColumns == {{"Foo"}} \cup {required_cols \ {c} : c \in required_cols}

\* A frame handed to allele_seq_effect_size.
InitStat ==
    /\ InitCall
    /\ InitNoConn
    /\ InitNoPool
    /\ mode = "free"
    /\ script = <<>>
    /\ InitNoMRSide
    /\ stat_pc = "called"
    /\ \/ columns = required_cols /\ data_frame \in AlleleFrames
       \/ columns \in OtherColumns /\ data_frame \in {f \in AlleleFrames : Len(f) = 1}
    /\ missing_cols = {}
    /\ counts = <<>>
    /\ probabilities = <<>>
    /\ swapped = <<>>
    /\ grouped = <<>>
    /\ effect_sizes = <<>>
    /\ fitted = {}
    /\ regrouped = <<>>

\* "missing_cols = required_cols - set(data_frame.columns)" and the raise.
CheckColumns ==
    /\ stat_pc = "called"
    /\ missing_cols' = required_cols \ columns
    /\ stat_pc' = IF required_cols \ columns # {} THEN "KeyError" ELSE "counts"
    /\ UNCHANGED <<data_frame, columns, counts, probabilities, swapped,
                   grouped, effect_sizes, fitted, regrouped>>
    /\ UNCHANGED beside_stat

\* "data_frame.apply(get_ref_and_alt_counts, axis=1)"
GetCounts ==
    /\ stat_pc = "counts"
    /\ counts' = [i \in 1..Len(data_frame) |-> get_ref_and_alt_counts(data_frame[i])]
    /\ stat_pc' = "estimate"
    /\ UNCHANGED <<data_frame, columns, missing_cols, probabilities, swapped,
                   grouped, effect_sizes, fitted, regrouped>>
    /\ UNCHANGED beside_stat

\* Mutant: a row without reads of either allele is rejected.
Estimate_rejecting ==
    /\ stat_pc = "estimate"
    /\ IF \E i \in 1..Len(counts) :
             counts[i].ref_count = 0 /\ counts[i].alt_count = 0
       THEN /\ stat_pc' = "ZeroReadsError"
            /\ UNCHANGED probabilities
       ELSE /\ stat_pc' = "group"
            /\ probabilities' =
                  estimate_binomial_probability(counts, "ref_count", "alt_count")
    /\ UNCHANGED <<data_frame, columns, missing_cols, counts, swapped,
                   grouped, effect_sizes, fitted, regrouped>>
    /\ UNCHANGED beside_stat

\* ".pipe(estimate_binomial_probability)"
Estimate ==
    /\ stat_pc = "estimate"
    /\ probabilities' =
          estimate_binomial_probability(counts, "ref_count", "alt_count")
    /\ stat_pc' = "group"
    /\ UNCHANGED <<data_frame, columns, missing_cols, counts, swapped,
                   grouped, effect_sizes, fitted, regrouped>>
    /\ UNCHANGED beside_stat

\* "group_statistics(data_frame.join(probabilities), group_columns=...)"
Group ==
    /\ stat_pc = "group"
    /\ grouped' = group_statistics(Joined(data_frame, probabilities),
                                   "ar", "ar_sterr", <<"chrm", "snppos">>)
    /\ stat_pc' = "rescale"
    /\ fitted' = CurveFitKeys(Joined(data_frame, probabilities), "ar",
                               <<"chrm", "snppos">>)
    /\ UNCHANGED <<data_frame, columns, missing_cols, counts, probabilities,
                   swapped, effect_sizes, regrouped>>
    /\ UNCHANGED beside_stat

\* ".pipe(calculate_effect_size)" and the return.
Rescale ==
    /\ stat_pc = "rescale"
    /\ effect_sizes' = calculate_effect_size(grouped, "ar", "ar_sterr")
    /\ stat_pc' = "returned"
    /\ UNCHANGED <<data_frame, columns, missing_cols, counts, probabilities,
                   swapped, grouped, fitted, regrouped>>
    /\ UNCHANGED beside_stat

\* A caller estimates the same counts with the two columns swapped.
SwapEstimate ==
    /\ stat_pc = "returned"
    /\ swapped = <<>>
    /\ swapped' = estimate_binomial_probability(counts, "alt_count", "ref_count")
    /\ UNCHANGED <<stat_pc, data_frame, columns, missing_cols, counts,
                   probabilities, grouped, effect_sizes, fitted, regrouped>>
    /\ UNCHANGED beside_stat

NextStat ==
    \/ CheckColumns
    \/ GetCounts
    \/ Estimate
    \/ Group
    \/ Rescale
    \/ SwapEstimate

SpecStat == InitStat /\ [][NextStat]_vars

\* ------------------------------------------------------------ group_statistics
\* The orders the rows of a frame of n rows may come in.
RowOrders(n) ==
    {f \in [1..n -> 1..n] : \A i, j \in 1..n : f[i] = f[j] => i = j}

Reordered(frame, perm) == [i \in 1..Len(frame) |-> frame[perm[i]]]

\* A caller groups the same rows in another order.
Regroup ==
    /\ stat_pc = "rescale"
    /\ regrouped = <<>>
    /\ \E perm \in RowOrders(Len(data_frame)) :
          regrouped' =
              [order |-> perm,
               result |-> group_statistics(
                              Reordered(Joined(data_frame, probabilities), perm),
                              "ar", "ar_sterr", <<"chrm", "snppos">>)]
    /\ UNCHANGED <<stat_pc, data_frame, columns, missing_cols, counts,
                   probabilities, swapped, grouped, effect_sizes, fitted>>
    /\ UNCHANGED beside_stat

\* Frames of samples that all have the paternal allele A: the samples of a
\* site differ in their counts only.
PoolRows ==
    {r \in AlleleRows :
        /\ r.pat_all = "A"
        /\ [mat_all |-> r.mat_all, pat_all |-> r.pat_all, ref |-> r.ref]
              \in Genotypes([chrm |-> r.chrm, snppos |-> r.snppos])}

PoolFrames == UNION {[1..n -> PoolRows] : n \in 1..MaxSamples}

InitPool ==
    /\ InitCall
    /\ InitNoConn
    /\ InitNoPool
    /\ mode = "free"
    /\ script = <<>>
    /\ InitNoMRSide
    /\ stat_pc = "called"
    /\ columns = required_cols
    /\ data_frame \in PoolFrames
    /\ missing_cols = {}
    /\ counts = <<>>
    /\ probabilities = <<>>
    /\ swapped = <<>>
    /\ grouped = <<>>
    /\ effect_sizes = <<>>
    /\ fitted = {}
    /\ regrouped = <<>>

NextPool ==
    \/ CheckColumns
    \/ GetCounts
    \/ Estimate
    \/ Group
    \/ Regroup

SpecPool == InitPool /\ [][NextPool]_vars

\* ------------------------------------------------------------- properties
\* Occurrences of the adjacent pair (x, y) in s.
PairCount(s, x, y) ==
    Cardinality({i \in 1..(Len(s) - 1) : s[i] = x /\ s[i + 1] = y})

\* The input is, in any mix of cases, a string over A, C, G and T.
ValidInput(s) == \A i \in 1..Len(s) : UpperChar(s[i]) \in Nucleotides

\* C1: the string a call returns has, for every pair of characters, as many
\* adjacent occurrences of the pair as the upper-cased input has.
C1_DinucleotidesPreserved ==
    pc = "done" =>
        \A x \in Chars, y \in Chars :
            PairCount(path, x, y) = PairCount(Upper(input), x, y)

\* A call has returned a string that differs from its input.
C1_Witness ==
    /\ pc = "done"
    /\ Len(path) >= 4
    /\ path # Upper(input)

\* C2: in the second of two runs that make the same calls on sources seeded
\* alike, every call that has ended has the result its counterpart in the
\* first run had.
C2_Deterministic ==
    mode = "replay" =>
        /\ Len(second_set) <= Len(first_set)
        /\ \A k \in 1..Len(second_set) : second_set[k] = first_set[k]

\* The second run has repeated two calls of the same input whose outputs
\* differ from each other: the source carried its state into the second call.
C2_Witness ==
    /\ mode = "replay"
    /\ Len(second_set) >= 2
    /\ second_set[1].error = "none"
    /\ second_set[2].error = "none"
    /\ second_set[1].path # second_set[2].path

\* C3: the string a call returns is as long as the input and holds only the
\* upper-case characters A, C, G and T.
C3_OutputWellFormed ==
    pc = "done" =>
        /\ Len(path) = Len(input)
        /\ \A i \in 1..Len(path) : path[i] \in Nucleotides

\* A call on an input with a lower-case character has returned.
C3_Witness ==
    /\ pc = "done"
    /\ Len(input) >= 3
    /\ \E i \in 1..Len(input) : input[i] = "a"
    /\ input[1] # "a"

\* C4: a call whose upper-cased input holds a character outside A, C, G, T
\* ends with the AssertionError that lists those characters, and has drawn
\* nothing from the random source.
C4_InvalidInputRejected ==
    (pc # "idle" /\ ~ValidInput(input)) =>
        /\ pc = "error"
        /\ error = "AssertionError"
        /\ invalid = CharSet(Upper(input)) \ Nucleotides
        /\ invalid # {}
        /\ ~rng_used
        /\ edge_list = <<>>

\* A call on an input with a lower-case nucleotide and a letter that is no
\* nucleotide has been rejected.
C4_Witness ==
    /\ pc = "error"
    /\ error = "AssertionError"
    /\ invalid = {"X"}
    /\ \E i \in 1..Len(input) : input[i] = "a"

\* C5: a call on a valid input of length 0 or 1 that has ended has returned
\* the upper-cased input.
C5_ShortInputUnchanged ==
    (pc \in {"done", "error"} /\ Len(input) <= 1 /\ ValidInput(input)) =>
        (pc = "done" /\ path = Upper(input))

\* C6: the retry loop of pick_edges is always left, the random choices being
\* fair.
C6_PickTerminates == (pc = "pick_loop") ~> (pc # "pick_loop")

\* pick_edges has drawn an edge list that fails the connectivity test and
\* is about to draw again.
C6_Witness ==
    /\ pc = "pick_loop"
    /\ edge_list # <<>>
    /\ ~connected_to_last(edge_list, nucleotide_list, last_character)


\* The allele-seq call has estimated its counts.
Estimated == stat_pc \in {"group", "rescale", "returned"}

\* C7: every estimated row is the estimate of its counts floored at 1: with
\* A = max(a, 1), B = max(b, 1) and T = A + B, ar is A / T and ar_sterr is
\* the root of (A / T) * (B / T) / T; and it is what the estimator gives for
\* the counts (A, B).
C7_CountsFloored ==
    Estimated =>
        \A i \in 1..Len(counts) :
            LET A == Max(counts[i].ref_count, 1)
                B == Max(counts[i].alt_count, 1)
                T == A + B
                ar == probabilities[i].ar
                sq == probabilities[i].ar_sterr.sq
                floored == estimate_binomial_probability(
                               <<[ref_count |-> A, alt_count |-> B]>>,
                               "ref_count", "alt_count")
            IN  /\ ar[1] * T = A * ar[2]
                /\ sq[1] * T * T * T = A * B * sq[2]
                /\ probabilities[i] = floored[1]

\* A row without reads of the reference allele has been estimated.
C7_Witness ==
    /\ Estimated
    /\ \E i \in 1..Len(counts) :
          /\ counts[i].ref_count = 0
          /\ counts[i].alt_count = 2
          /\ probabilities[i].ar = <<1, 3>>

\* C8: the estimate with the two count columns swapped has, row by row, the
\* probability 1 - p and the same standard error.
C8_SwapComplements ==
    swapped # <<>> =>
        /\ Len(swapped) = Len(probabilities)
        /\ \A i \in 1..Len(swapped) :
            LET p == probabilities[i].ar
                q == swapped[i].ar
            IN  /\ p[1] * q[2] + q[1] * p[2] = p[2] * q[2]
                /\ swapped[i].ar_sterr = probabilities[i].ar_sterr

\* Both estimates exist of a row with reads of one allele only.
C8_Witness ==
    /\ swapped # <<>>
    /\ \E i \in 1..Len(counts) :
          /\ counts[i].ref_count = 0
          /\ counts[i].alt_count = 2
          /\ swapped[i].ar = <<2, 3>>

\* C9: calculate_effect_size returns one row per row of its frame, with
\* es = 1 - 2 * ar and es_sterr = 2 * ar_sterr of that row, which is what it
\* returns for the frame of that row alone.
C9_EffectSizeRowByRow ==
    stat_pc = "returned" =>
        /\ Len(effect_sizes) = Len(grouped)
        /\ \A i \in 1..Len(grouped) :
            LET p == grouped[i].ar
                es == effect_sizes[i].es
                alone == calculate_effect_size(<<grouped[i]>>, "ar", "ar_sterr")
            IN  /\ es[1] * p[2] = (p[2] - 2 * p[1]) * es[2]
                /\ effect_sizes[i].es_sterr.sq[1] * grouped[i].ar_sterr.sq[2]
                      = 4 * grouped[i].ar_sterr.sq[1] * effect_sizes[i].es_sterr.sq[2]
                /\ effect_sizes[i] = alone[1]

\* Effect sizes of two sites with different allelic ratios have been returned.
C9_Witness ==
    /\ stat_pc = "returned"
    /\ Len(effect_sizes) = 2
    /\ effect_sizes[1].es # effect_sizes[2].es
    /\ effect_sizes[1].es # <<0, 1>>

\* The rows of data_frame at the site of the g-th returned effect size.
SamplesOf(g) ==
    {i \in 1..Len(data_frame) :
        <<data_frame[i].chrm, data_frame[i].snppos>> = grouped[g].index}

Sign(n) == IF n > 0 THEN 1 ELSE IF n < 0 THEN 0 - 1 ELSE 0

\* C10, as claimed: at a site with one sample the effect size has the sign of
\* the floored reference count minus the floored alternate count.
C10_ReferenceMinusAlternate ==
    stat_pc = "returned" =>
        \A g \in 1..Len(grouped) : \A i \in SamplesOf(g) :
            SamplesOf(g) = {i} =>
                Sign(effect_sizes[g].es[1]) =
                    Sign(Max(counts[i].ref_count, 1) - Max(counts[i].alt_count, 1))

\* C10, amended: at a site with one sample the effect size has the sign of
\* the floored alternate count minus the floored reference count.
C10_AlternateMinusReference ==
    stat_pc = "returned" =>
        \A g \in 1..Len(grouped) : \A i \in SamplesOf(g) :
            SamplesOf(g) = {i} =>
                Sign(effect_sizes[g].es[1]) =
                    Sign(Max(counts[i].alt_count, 1) - Max(counts[i].ref_count, 1))

\* The effect size of a one-sample site with more reference than alternate
\* reads has been returned, and it is negative.
C10_Witness ==
    /\ stat_pc = "returned"
    /\ \E g \in 1..Len(grouped) : \E i \in SamplesOf(g) :
          /\ SamplesOf(g) = {i}
          /\ counts[i].ref_count = 2
          /\ counts[i].alt_count = 0
          /\ effect_sizes[g].es[1] < 0

\* --------------------------------------------------------------- causal_effect
\* A call of causal_effect on whole numbers.
InitCausal ==
    /\ InitCall
    /\ InitNoConn
    /\ InitNoPool
    /\ mode = "free"
    /\ script = <<>>
    /\ InitNoFrame
    /\ InitNoMR
    /\ InitNoQ
    /\ ce_pc = "called"
    /\ \E e, g \in (0 - MaxArg)..MaxArg : \E ee, ge \in 0..MaxArg :
          arguments = [exposure_effect |-> RatInt(e), exposure_error |-> RatInt(ee),
                       gwas_effect |-> RatInt(g), gwas_error |-> RatInt(ge)]
    /\ ce_result = <<>>

\* causal_effect runs: it returns its pair or raises.
CallCausalEffect ==
    /\ ce_pc = "called"
    /\ LET r == causal_effect(arguments.exposure_effect, arguments.exposure_error,
                              arguments.gwas_effect, arguments.gwas_error)
       IN  IF r.raised = "ZeroDivisionError"
           THEN /\ ce_pc' = "ZeroDivisionError"
                /\ UNCHANGED ce_result
           ELSE /\ ce_pc' = "returned"
                /\ ce_result' = r
    /\ UNCHANGED <<arguments, mr_vars, q_vars>>
    /\ UNCHANGED beside_mr

NextCausal == CallCausalEffect

SpecCausal == InitCausal /\ [][NextCausal]_vars

\* ---------------------------------------------------------------- get_q_values
\* "for index, p in enumerate(list_of_p)": the finite p-values and their
\* positions.
Collect ==
    /\ q_pc = "called"
    /\ pos_p_values' = FinitePositions(list_of_p)
    /\ p_values_no_none' = SelectSeq(list_of_p, IsFloat)
    /\ q_pc' = "collected"
    /\ UNCHANGED <<list_of_p, q_values, q_out>>
    /\ UNCHANGED <<causal_vars, mr_vars>>
    /\ UNCHANGED beside_mr

\* "q_values = list(multipletests(p_values_no_none, method="fdr_bh")[1])"
Correct ==
    /\ q_pc = "collected"
    /\ LET r == multipletests(p_values_no_none)
       IN  IF r.raised = "ZeroDivisionError"
           THEN /\ q_pc' = "ZeroDivisionError"
                /\ UNCHANGED q_values
           ELSE /\ q_pc' = "corrected"
                /\ q_values' = r.pvals_corrected
    /\ UNCHANGED <<list_of_p, pos_p_values, p_values_no_none, q_out>>
    /\ UNCHANGED <<causal_vars, mr_vars>>
    /\ UNCHANGED beside_mr

\* "recover the None values" and the return.
Recover ==
    /\ q_pc = "corrected"
    /\ q_out' = Recovered(Len(list_of_p), pos_p_values, q_values)
    /\ q_pc' = "returned"
    /\ UNCHANGED <<list_of_p, pos_p_values, p_values_no_none, q_values>>
    /\ UNCHANGED <<causal_vars, mr_vars>>
    /\ UNCHANGED beside_mr

\* The lists get_q_values is called on: fractions and missing values.
PValues == {NaN} \cup {Rat(k, PGrid) : k \in 0..PGrid}

InitQ ==
    /\ InitCall
    /\ InitNoConn
    /\ InitNoPool
    /\ mode = "free"
    /\ script = <<>>
    /\ InitNoFrame
    /\ InitNoCausal
    /\ InitNoMR
    /\ q_pc = "called"
    /\ list_of_p \in SeqsUpTo(PValues, MaxP)
    /\ pos_p_values = <<>>
    /\ p_values_no_none = <<>>
    /\ q_values = <<>>
    /\ q_out = <<>>

NextQ ==
    \/ Collect
    \/ Correct
    \/ Recover

SpecQ == InitQ /\ [][NextQ]_vars

\* ----------------------------------------------------------- naive_mr_analysis
\* The calls are made with permute=False, the default.
\* "for _, BV in df_BVs.iterrows()": the rows of df_GWAS with the rsid of the
\* next BV are selected and filtered; a BV without such rows gets its row of
\* missing values.
NextBV ==
    /\ mr_pc = "loop"
    /\ bv_index < Len(df_BVs)
    /\ LET BV == df_BVs[bv_index + 1]
           matching == MatchingRows(df_GWAS, BV.rsid)
       IN  IF matching # <<>>
           THEN /\ rsid_GWAS' = FilteredRows(matching, min_MAF, min_HWE, min_iscore)
                /\ trait_index' = 0
                /\ mr_pc' = "traits"
                /\ UNCHANGED <<bv_index, out>>
           ELSE /\ out' = Append(out, MissingRow(BV, AllMissing))
                /\ bv_index' = bv_index + 1
                /\ UNCHANGED <<mr_pc, rsid_GWAS, trait_index>>
    /\ UNCHANGED <<df_BVs, df_GWAS, GWAScodeslist, min_MAF, min_HWE, min_iscore,
                   mr_frame>>
    /\ UNCHANGED <<causal_vars, q_vars>>
    /\ UNCHANGED beside_mr

\* "for _, trait_GWAS in rsid_GWAS.iterrows()": one row.
ScoreRow ==
    /\ mr_pc = "traits"
    /\ trait_index < Len(rsid_GWAS)
    /\ trait_index' = trait_index + 1
    /\ LET BV == df_BVs[bv_index + 1]
           trait_GWAS == rsid_GWAS[trait_index + 1]
           scored == causal_effect(BV.es, BV.es_sterr,
                                   trait_GWAS.beta, trait_GWAS.NSE)
       IN  IF ~InCodesList(trait_GWAS.trait, GWAScodeslist)
           THEN UNCHANGED <<mr_pc, out>>
           ELSE IF allele_swap_sign(trait_GWAS, BV) # 0
           THEN IF scored.raised = "ZeroDivisionError"
                THEN /\ mr_pc' = "ZeroDivisionError"
                     /\ UNCHANGED out
                ELSE /\ out' = Append(out, ScoredRow(BV, trait_GWAS, scored))
                     /\ UNCHANGED mr_pc
           ELSE /\ out' = Append(out, MissingRow(BV, trait_GWAS))
                /\ UNCHANGED mr_pc
    /\ UNCHANGED <<df_BVs, df_GWAS, GWAScodeslist, min_MAF, min_HWE, min_iscore,
                   bv_index, rsid_GWAS, mr_frame>>
    /\ UNCHANGED <<causal_vars, q_vars>>
    /\ UNCHANGED beside_mr

\* The inner loop has run through rsid_GWAS.
EndTraits ==
    /\ mr_pc = "traits"
    /\ trait_index = Len(rsid_GWAS)
    /\ bv_index' = bv_index + 1
    /\ mr_pc' = "loop"
    /\ UNCHANGED <<df_BVs, df_GWAS, GWAScodeslist, min_MAF, min_HWE, min_iscore,
                   rsid_GWAS, trait_index, out, mr_frame>>
    /\ UNCHANGED <<causal_vars, q_vars>>
    /\ UNCHANGED beside_mr

\* "pvalues = list(out["p value"]); qvalues = get_q_values(pvalues)": the call.
BuildFrame ==
    /\ mr_pc = "loop"
    /\ bv_index = Len(df_BVs)
    /\ mr_pc' = "q_values"
    /\ q_pc' = "called"
    /\ list_of_p' = [i \in 1..Len(out) |-> out[i].p]
    /\ pos_p_values' = <<>>
    /\ p_values_no_none' = <<>>
    /\ q_values' = <<>>
    /\ q_out' = <<>>
    /\ UNCHANGED <<df_BVs, df_GWAS, GWAScodeslist, min_MAF, min_HWE, min_iscore,
                   bv_index, rsid_GWAS, trait_index, out, mr_frame>>
    /\ UNCHANGED causal_vars
    /\ UNCHANGED beside_mr

\* Mutant: each row is corrected on its own, so that its q-value is its
\* p-value.
ReturnFrame_per_row ==
    /\ mr_pc = "q_values"
    /\ q_pc = "returned"
    /\ mr_frame' = [i \in 1..Len(out) |-> [row |-> out[i], q |-> out[i].p]]
    /\ mr_pc' = "returned"
    /\ UNCHANGED <<df_BVs, df_GWAS, GWAScodeslist, min_MAF, min_HWE, min_iscore,
                   bv_index, rsid_GWAS, trait_index, out>>
    /\ UNCHANGED <<causal_vars, q_vars>>
    /\ UNCHANGED beside_mr

\* "out["q values"] = qvalues; return out"
ReturnFrame ==
    /\ mr_pc = "q_values"
    /\ q_pc = "returned"
    /\ mr_frame' = [i \in 1..Len(out) |-> [row |-> out[i], q |-> q_out[i]]]
    /\ mr_pc' = "returned"
    /\ UNCHANGED <<df_BVs, df_GWAS, GWAScodeslist, min_MAF, min_HWE, min_iscore,
                   bv_index, rsid_GWAS, trait_index, out>>
    /\ UNCHANGED <<causal_vars, q_vars>>
    /\ UNCHANGED beside_mr

\* The exception of get_q_values ends naive_mr_analysis.
QValuesRaised ==
    /\ mr_pc = "q_values"
    /\ q_pc = "ZeroDivisionError"
    /\ mr_pc' = "ZeroDivisionError"
    /\ UNCHANGED <<df_BVs, df_GWAS, GWAScodeslist, min_MAF, min_HWE, min_iscore,
                   bv_index, rsid_GWAS, trait_index, out, mr_frame>>
    /\ UNCHANGED <<causal_vars, q_vars>>
    /\ UNCHANGED beside_mr

NextMR ==
    \/ NextBV
    \/ ScoreRow
    \/ EndTraits
    \/ BuildFrame
    \/ Collect
    \/ Correct
    \/ Recover
    \/ ReturnFrame
    \/ QValuesRaised

\* A BV row: rsid, reference and alternative allele, effect size and its error.
BVRow(rsid, es) ==
    [rsid |-> rsid, ref |-> "G", alt |-> "A", es |-> RatInt(es),
     es_sterr |-> RatInt(1)]

\* A GWAS row without missing values; MAF, HWE and iscore in hundredths.
GWASRow(rsid, allele, beta, trait, MAF, HWE, iscore) ==
    [rsid |-> rsid, allele |-> allele, iscore |-> iscore, beta |-> RatInt(beta),
     NSE |-> RatInt(4), trait |-> trait, MAF |-> MAF, HWE |-> HWE, na |-> {}]

BVRows == {BVRow("rs1", 0), BVRow("rs1", 1), BVRow("rs1", 0 - 2), BVRow("rs2", 1)}

\* GWAS rows for rs1 whose allele is the alternative, the reference or neither
\* allele of the BV, a row below the MAF threshold, a row of a trait outside
\* the codes list, and a row for rs2.
MRRows ==
    {GWASRow("rs1", "A", 3, "foo", 100, 100, 100),
     GWASRow("rs1", "A", 0, "foo", 100, 100, 100),
     GWASRow("rs1", "G", 3, "foo", 100, 100, 100),
     GWASRow("rs1", "T", 3, "foo", 100, 100, 100),
     GWASRow("rs1", "A", 3, "foo", 5, 100, 100),
     GWASRow("rs1", "A", 3, "bar", 100, 100, 100),
     GWASRow("rs2", "A", 3, "foo", 100, 100, 100)}

\* The state at the head of the loop over df_BVs: "out = []".
InitLoop ==
    /\ InitCall
    /\ InitNoConn
    /\ InitNoPool
    /\ mode = "free"
    /\ script = <<>>
    /\ InitNoFrame
    /\ InitNoCausal
    /\ InitNoQ
    /\ mr_pc = "loop"
    /\ bv_index = 0
    /\ rsid_GWAS = <<>>
    /\ trait_index = 0
    /\ out = <<>>
    /\ mr_frame = <<>>

InitMR ==
    /\ InitLoop
    /\ df_BVs \in SeqsUpTo(BVRows, MaxBVs)
    /\ df_GWAS \in SeqsUpTo(MRRows, MaxGWAS)
    /\ GWAScodeslist = <<"foo">>
    /\ min_MAF = 25
    /\ min_HWE = 25
    /\ min_iscore = 25

SpecMR == InitMR /\ [][NextMR]_vars

\* The filter frame of the tests: MAF, HWE and iscore of 1.0 or 0.05 (in
\* hundredths), a row of trait bar, and a row whose MAF is missing.  The
\* thresholds are those of the tests: 0.04, 0.05, 0.25 and 1.2.
FilterRows ==
    {GWASRow("rs1", "A", 3, "foo", MAF, HWE, iscore) :
        MAF \in {5, 100}, HWE \in {5, 100}, iscore \in {5, 100}}
    \cup {GWASRow("rs1", "A", 3, "bar", 100, 100, 100),
          [GWASRow("rs1", "A", 3, "foo", 0, 100, 100) EXCEPT !.na = {"MAF"}]}

InitFilter ==
    /\ InitLoop
    /\ df_BVs = <<BVRow("rs1", 1)>>
    /\ df_GWAS \in SeqsUpTo(FilterRows, MaxGWAS)
    /\ GWAScodeslist \in {<<"foo">>, <<"foo", "bar">>}
    /\ \E level \in {4, 5, 25, 120} :
          \/ min_MAF = level /\ min_HWE = 4 /\ min_iscore = 4
          \/ min_MAF = 4 /\ min_HWE = level /\ min_iscore = 4
          \/ min_MAF = 4 /\ min_HWE = 4 /\ min_iscore = level

SpecFilter == InitFilter /\ [][NextMR]_vars

\* ------------------------------------------- connected_to_last, called directly
\* The nucleotide lists get_nucleotide_list can return for a section that is
\* not empty.
NucleotideLists == {SortedList(S) : S \in (SUBSET Nucleotides) \ {{}}}

\* The orders in which the elements of a set can be listed.
OrdersOf(S) ==
    {o \in [1..Cardinality(S) -> S] :
        \A i, j \in 1..Cardinality(S) : o[i] = o[j] => i = j}

\* The edge lists over a set of nucleotides with at most one outgoing edge
\* per nucleotide, in every order.
EdgeLists(N) ==
    UNION {{[k \in 1..Cardinality(T) |-> <<o[k], end[o[k]]>>] :
               o \in OrdersOf(T), end \in [T -> N]} : T \in SUBSET N}

InitConn ==
    /\ InitCall
    /\ mode = "free"
    /\ script = <<>>
    /\ InitNoFrame
    /\ InitNoMRSide
    /\ InitNoPool
    /\ conn_pc = "called"
    /\ \E list \in NucleotideLists :
          \E last \in CharSet(list), edges \in EdgeLists(CharSet(list)) :
              conn_call = [edge_list |-> edges, nucleotide_list |-> list,
                           last_character |-> last]
    /\ conn_result = FALSE

\* connected_to_last(edge_list, nucleotide_list, last_character)
CallConnectedToLast ==
    /\ conn_pc = "called"
    /\ conn_result' = connected_to_last(conn_call.edge_list,
                                        conn_call.nucleotide_list,
                                        conn_call.last_character)
    /\ conn_pc' = "returned"
    /\ UNCHANGED <<conn_call, pool_pc, pool_call, pool_result>>
    /\ UNCHANGED beside_direct

SpecConn == InitConn /\ [][CallConnectedToLast]_vars

\* ------------------------------------ _pool_summary_statistics, called directly
\* The estimates pooled: the values 0, 1/2 and 1 with the standard errors 1
\* and 2.
PoolPoints == {RatInt(0), Rat(1, 2), RatInt(1)}
PoolErrors == {Root(RatInt(1)), Root(RatInt(4))}

InitFit ==
    /\ InitCall
    /\ mode = "free"
    /\ script = <<>>
    /\ InitNoFrame
    /\ InitNoMRSide
    /\ InitNoConn
    /\ pool_pc = "called"
    /\ \E n \in 1..MaxPoints :
          \E points \in [1..n -> PoolPoints], sterr \in [1..n -> PoolErrors] :
              pool_call = [points |-> points, sterr |-> sterr]
    /\ pool_result = <<>>

\* _pool_summary_statistics(points, sterr)
CallPool ==
    /\ pool_pc = "called"
    /\ pool_result' = _pool_summary_statistics(pool_call.points, pool_call.sterr)
    /\ pool_pc' = "returned"
    /\ UNCHANGED <<pool_call, conn_pc, conn_call, conn_result>>
    /\ UNCHANGED beside_direct

SpecFit == InitFit /\ [][CallPool]_vars

\* x <= y for fractions
RatAtMost(x, y) == x[1] * y[2] <= y[1] * x[2]

\* C17: in a returned list the q-values of the finite p-values do not
\* decrease as the p-values increase: p_i <= p_j gives q_i <= q_j.
C17_QValuesMonotone ==
    q_pc = "returned" =>
        \A i, j \in 1..Len(list_of_p) :
            (/\ IsFloat(list_of_p[i])
             /\ IsFloat(list_of_p[j])
             /\ RatAtMost(list_of_p[i], list_of_p[j]))
                => RatAtMost(q_out[i], q_out[j])

\* q-values have been returned for a list in which the smaller p-value has
\* the larger ratio p * n / rank.
C17_Witness ==
    /\ q_pc = "returned"
    /\ list_of_p = <<<<3, 4>>, NaN, <<1, 2>>>>
    /\ q_out = <<<<3, 4>>, NaN, <<3, 4>>>>

\* C18, as claimed: a call of get_q_values ends by returning a list as long
\* as its input, with a missing q-value at every missing p-value and, at the
\* finite p-values, the correction of the finite p-values alone.
C18_MissingStayMissing ==
    q_pc \in {"returned", "ZeroDivisionError"} =>
        /\ q_pc = "returned"
        /\ Len(q_out) = Len(list_of_p)
        /\ \A i \in 1..Len(list_of_p) :
              ~IsFloat(list_of_p[i]) => q_out[i] = NaN
        /\ LET finite == SelectSeq(list_of_p, IsFloat)
                 positions == FinitePositions(list_of_p)
             IN  \A k \in 1..Len(finite) :
                    q_out[positions[k]] = multipletests(finite).pvals_corrected[k]

C14_ZeroExposureRaises ==
    (ce_pc # "called" /\ arguments.exposure_effect[1] = 0) =>
        /\ ce_pc = "ZeroDivisionError"
        /\ ce_result = <<>>

\* causal_effect has raised for a zero exposure effect with the other
\* arguments non-zero.
C14_Witness ==
    /\ ce_pc = "ZeroDivisionError"
    /\ arguments.exposure_effect = <<0, 1>>
    /\ arguments.exposure_error = <<4, 1>>
    /\ arguments.gwas_effect = <<3, 1>>
    /\ arguments.gwas_error = <<2, 1>>

\* C11: a site with a single sample is pooled to that sample's ratio and
\* standard error, and curve_fit is not called for it.
C11_SingleEstimateUnchanged ==
    stat_pc = "rescale" =>
        \A g \in 1..Len(grouped) : \A i \in SamplesOf(g) :
            SamplesOf(g) = {i} =>
                /\ grouped[g].ar = probabilities[i].ar
                /\ grouped[g].ar_sterr = probabilities[i].ar_sterr
                /\ grouped[g].index \notin fitted

\* A frame of two sites with one sample each has been grouped.
C11_Witness ==
    /\ stat_pc = "rescale"
    /\ Len(data_frame) = 2
    /\ Len(grouped) = 2
    /\ \E g \in 1..Len(grouped) : \E i \in SamplesOf(g) :
          /\ SamplesOf(g) = {i}
          /\ grouped[g].ar = <<1, 3>>

\* The rows of a frame that carry a key, in frame order.
RowsWithKey(frame, key) ==
    SelectSeq(frame, LAMBDA row : <<row.chrm, row.snppos>> = key)

\* C12: grouping the rows in any other order gives every key the same
\* pooled value and standard error, and a key's result is the result of
\* grouping the rows of that key alone.
C12_GroupingIgnoresRowOrder ==
    regrouped # <<>> =>
        /\ Len(regrouped.result) = Len(grouped)
        /\ \A g \in 1..Len(grouped) :
              /\ \E h \in 1..Len(regrouped.result) :
                    regrouped.result[h] = grouped[g]
              /\ LET alone == group_statistics(
                                  RowsWithKey(Joined(data_frame, probabilities),
                                              grouped[g].index),
                                  "ar", "ar_sterr", <<"chrm", "snppos">>)
                 IN  alone = <<grouped[g]>>

\* Two samples of one site with different ratios have been grouped in both
\* orders.
C12_Witness ==
    /\ regrouped # <<>>
    /\ Len(data_frame) = 2
    /\ regrouped.order = <<2, 1>>
    /\ Len(grouped) = 1
    /\ probabilities[1].ar # probabilities[2].ar
    /\ probabilities[1].ar_sterr # probabilities[2].ar_sterr


\* ------------------------------------------------- claims on naive_mr_analysis
\* An emitted row whose GWAS allele is neither allele of its BV.
UnmatchedAllele(row) ==
    /\ row.gwas.na = {}
    /\ row.gwas.allele # row.bv.alt
    /\ row.gwas.allele # row.bv.ref

\* An emitted row for which causal_effect was computed.
IsScored(row) == row.causal_es # NaN

\* C15: a row whose GWAS allele equals neither the alternate nor the reference
\* allele of the exposure is emitted with causal effect, standard error,
\* z-score and p-value all missing, and it is no error: the analysis of a
\* batch holding such a row does not end in the exception of the q-value step.
C15_UnmatchedAlleleIsNoError ==
    /\ \A i \in 1..Len(out) :
          UnmatchedAllele(out[i]) =>
              /\ out[i].causal_es = NaN
              /\ out[i].causal_se = Root(NaN)
              /\ out[i].z.sq = NaN
              /\ out[i].p = NaN
    /\ (\E i \in 1..Len(out) : UnmatchedAllele(out[i])) =>
          ~(mr_pc = "ZeroDivisionError" /\ q_pc = "ZeroDivisionError")

\* C16: the orientation sign is applied to the exposure effect before
\* causal_effect is called: a scored row has the causal effect beta / es when
\* its GWAS allele is the alternate allele and beta / (-es) when it is the
\* reference allele.
C16_SignAppliedToExposure ==
    \A i \in 1..Len(out) :
        IsScored(out[i]) =>
            LET sign == IF out[i].gwas.allele = out[i].bv.ref THEN 0 - 1 ELSE 1
            IN  out[i].causal_es =
                    RatDiv(out[i].gwas.beta, RatMul(RatInt(sign), out[i].bv.es))

\* The rows of df_GWAS the claim says are kept, in the order of the frame.
KeptRows ==
    SelectSeq(df_GWAS, LAMBDA row :
        /\ row.na = {}
        /\ row.MAF >= min_MAF
        /\ row.HWE >= min_HWE
        /\ row.iscore >= min_iscore
        /\ \E k \in 1..Len(GWAScodeslist) : GWAScodeslist[k] = row.trait)

C20_MissingColumnsRaise ==
    LET needed == {"chrm", "snppos", "mat_all", "pat_all",
                   "cA", "cC", "cG", "cT", "ref"}
    IN  stat_pc # "called" =>
            /\ stat_pc = "KeyError" <=> needed \ columns # {}
            /\ stat_pc = "KeyError" =>
                  /\ missing_cols = needed \ columns
                  /\ counts = <<>>
                  /\ probabilities = <<>>
                  /\ grouped = <<>>
                  /\ effect_sizes = <<>>

\* The call on a frame that lacks exactly the ref column has raised.
C20_Witness ==
    /\ stat_pc = "KeyError"
    /\ missing_cols = {"ref"}


\* ------------------------------------------------------ zero reads at a site
\* A row of counts without reads of either allele.
ZeroReads(row) == row.ref_count = 0 /\ row.alt_count = 0

\* C21 as stated: a site whose raw reference and alternate counts are both
\* zero is rejected by allele_seq_effect_size, so a frame holding such a site
\* is never estimated.
C21_ZeroReadsRejected ==
    (\E i \in 1..Len(counts) : ZeroReads(counts[i])) => ~Estimated

\* C21, amended: allele_seq_effect_size accepts a site whose raw counts are
\* both zero; the counts are floored to (1, 1), the allelic ratio is 1/2 with
\* squared standard error 1/8, and no call ends in an error other than the
\* one for missing columns.
C21_ZeroReadsFloored ==
    /\ stat_pc \in {"idle", "called", "counts", "estimate", "group", "rescale",
                    "returned", "KeyError"}
    /\ Estimated =>
          \A i \in 1..Len(counts) :
              ZeroReads(counts[i]) =>
                  /\ probabilities[i].ar = Rat(1, 2)
                  /\ probabilities[i].ar_sterr = Root(Rat(1, 8))

\* A frame with a site without reads has been carried through to the return.
C21_Witness ==
    /\ stat_pc = "returned"
    /\ \E i \in 1..Len(counts) :
          ZeroReads(counts[i]) /\ probabilities[i].ar = Rat(1, 2)


\* ------------------------------------------------------ path reconstruction
\* The path loop has made all its len(section) - 1 steps.
WalkOver == pc \in {"walk", "done"} /\ walked = WalkLength(section)

\* C22: the walk from the first character never stands on a character
\* without remaining successors while steps are left to take; when it stops
\* every successor list is empty and it stands on the last character of the
\* input.
C22_WalkNeverStuck ==
    /\ (pc = "walk" /\ walked < WalkLength(section)) =>
          dinucleotide_sequence[previous_character] # <<>>
    /\ WalkOver =>
          /\ \A n \in Chars : dinucleotide_sequence[n] = <<>>
          /\ previous_character = section[Len(section)]
          /\ Len(path) = Len(section)

\* A walk over four characters has ended with a path other than the input.
C22_Witness ==
    /\ pc = "done"
    /\ Len(section) = 4
    /\ walked = 3
    /\ path # section


\* ------------------------------------------------------- connected_to_last
\* The nucleotides from which the set S is reached along edges of edge_list.
RECURSIVE ReachingSet(_, _)
ReachingSet(edges, S) ==
    LET T == S \cup {edges[k][1] : k \in {j \in 1..Len(edges) : edges[j][2] \in S}}
    IN  IF T = S THEN S ELSE ReachingSet(edges, T)

\* C23: connected_to_last returns true exactly when every nucleotide of
\* nucleotide_list reaches last_character along edges of edge_list, for every
\* edge list with at most one outgoing edge per nucleotide in every order:
\* len(nucleotide_list) - 1 rounds of back-propagation decide it.
C23_ConnectedExactly ==
    conn_pc = "returned" =>
        (conn_result <=>
            CharSet(conn_call.nucleotide_list) \subseteq
                ReachingSet(conn_call.edge_list, {conn_call.last_character}))

\* The chain A -> C -> G -> T listed from its far end, which takes all three
\* rounds, has been found connected.
C23_Witness ==
    /\ conn_pc = "returned"
    /\ conn_call.edge_list = <<<<"A", "C">>, <<"C", "G">>, <<"G", "T">>>>
    /\ conn_call.last_character = "T"
    /\ conn_result


\* ------------------------------------------------- edge list, rearrangement
\* Occurrences of x in a list.
CountIn(list, x) == Cardinality({i \in 1..Len(list) : list[i] = x})

\* pick_edges has returned edge_list.
EdgesAccepted == pc \in {"rearrange", "walk", "done"}

\* The rearrangement is done and the walk has not taken a step.
Rearranged == pc = "walk" /\ walked = 0

\* C24: the accepted edge list has exactly one edge for each distinct
\* nucleotide other than the last character and none for the last character,
\* each edge a transition of the input; after the rearrangement the successor
\* list of each such nucleotide ends with its chosen edge, and every
\* successor list holds the successors it held before, each as often.
C24_EdgeListAndRearrangement ==
    /\ EdgesAccepted =>
          /\ \A n \in CharSet(section) \ {section[Len(section)]} :
                Cardinality({k \in 1..Len(edge_list) : edge_list[k][1] = n}) = 1
          /\ \A k \in 1..Len(edge_list) :
                /\ edge_list[k][1] \in CharSet(section) \ {section[Len(section)]}
                /\ PairCount(section, edge_list[k][1], edge_list[k][2]) > 0
    /\ Rearranged =>
          /\ \A k \in 1..Len(edge_list) :
                LET list == dinucleotide_sequence[edge_list[k][1]]
                IN  list # <<>> /\ list[Len(list)] = edge_list[k][2]
          /\ \A n \in Chars, x \in Chars :
                CountIn(dinucleotide_sequence[n], x) = PairCount(section, n, x)

\* Two edges were chosen, and the rearrangement has moved one of them from
\* the front of its successor list to the end.
C24_Witness ==
    /\ Rearranged
    /\ Len(edge_list) = 2
    /\ \E k \in 1..Len(edge_list) :
          dinucleotide_sequence[edge_list[k][1]] #
              get_dinucleotide_sequence(section)[edge_list[k][1]]


\* ---------------------------------------------------- pooling of estimates
\* C25: for two or more estimates (v_i, s_i) the pooled value is
\* sum(v_i / s_i^2) / sum(1 / s_i^2) and the squared pooled standard error is
\* 1 / sum(1 / s_i^2), whatever the residuals; the values 1, 0 with unit
\* errors pool to 1/2 with squared error 1/2, and 1, 1, 0 to 2/3 with squared
\* error 1/3.
C25_InverseVariancePooling ==
    (pool_pc = "returned" /\ Len(pool_call.points) >= 2) =>
        LET v == pool_call.points
            s == pool_call.sterr
            n == Len(v)
            sum_w == RatSum([i \in 1..n |-> <<s[i].sq[2], s[i].sq[1]>>])
            sum_wv == RatSum([i \in 1..n |->
                                 Rat(v[i][1] * s[i].sq[2], v[i][2] * s[i].sq[1])])
        IN  /\ RatMul(pool_result[1], sum_w) = sum_wv
            /\ RatMul(pool_result[2].sq, sum_w) = RatInt(1)
            /\ (v = <<RatInt(1), RatInt(0)>> /\ \A i \in 1..n : s[i].sq = RatInt(1))
                  => pool_result = <<Rat(1, 2), Root(Rat(1, 2))>>
            /\ (v = <<RatInt(1), RatInt(1), RatInt(0)>>
                    /\ \A i \in 1..n : s[i].sq = RatInt(1))
                  => pool_result = <<Rat(2, 3), Root(Rat(1, 3))>>

\* The group B of the test has been pooled: 1, 1, 0 with unit errors.
C25_Witness ==
    /\ pool_pc = "returned"
    /\ pool_call.points = <<RatInt(1), RatInt(1), RatInt(0)>>
    /\ \A i \in 1..3 : pool_call.sterr[i] = Root(RatInt(1))
    /\ pool_result[1] = Rat(2, 3)


\* --------------------------------------------- the batch of naive_mr_analysis
\* The call of naive_mr_analysis has ended.
AnalysisEnded == mr_pc \in {"returned", "ZeroDivisionError"}

\* No exposure effect of the batch is zero.
NoZeroExposure == \A b \in 1..Len(df_BVs) : df_BVs[b].es # RatInt(0)

\* C26: every exposure SNP of the input is represented in the output: the
\* call on a batch without zero exposure effects returns a frame, every row
\* of df_BVs has a row in it, a SNP without GWAS row of its identifier has
\* its one row of missing values, and the rows are in the order of df_BVs.
C26_EverySNPRepresented ==
    (AnalysisEnded /\ NoZeroExposure) =>
        /\ mr_pc = "returned"
        /\ \A b \in 1..Len(df_BVs) :
              /\ \E i \in 1..Len(mr_frame) : mr_frame[i].row.bv = df_BVs[b]
              /\ MatchingRows(df_GWAS, df_BVs[b].rsid) = <<>> =>
                    Cardinality({i \in 1..Len(mr_frame) :
                        mr_frame[i].row = MissingRow(df_BVs[b], AllMissing)})
                    = Cardinality({c \in 1..Len(df_BVs) : df_BVs[c] = df_BVs[b]})
        /\ \A i, j \in 1..Len(mr_frame) :
              i < j =>
                  \E b, c \in 1..Len(df_BVs) :
                      /\ b <= c
                      /\ mr_frame[i].row.bv = df_BVs[b]
                      /\ mr_frame[j].row.bv = df_BVs[c]

\* The q-values of a list of p-values corrected as one family.
GlobalQValues(ps) ==
    Recovered(Len(ps), FinitePositions(ps),
              multipletests(SelectSeq(ps, IsFloat)).pvals_corrected)

====
